---- MODULE Spec2Model ----
(***************************************************************************)
(* Model of src/managers/ChessAiManager/ChessAiManager.ts: the session     *)
(* (color, perspective tables, running score prevSum), the incremental     *)
(* evaluator evaluateBoard and the alpha-beta search minimax, run step by  *)
(* step on an explicit call stack over the one mutable rules-engine        *)
(* position.                                                               *)
(*                                                                         *)
(* The rules engine (chess.js) is an external collaborator.  It is         *)
(* modelled as a reduced chess: a board of NumFiles files and 8 ranks with *)
(* pawns (single step, diagonal capture, promotion to a queen), knights    *)
(* and queens, no kings and therefore no check.  Its Move records carry    *)
(* the fields the manager reads: color, from, to, flags, piece, captured,  *)
(* promotion.                                                              *)
(***************************************************************************)
EXTENDS Integers, Sequences, FiniteSets, TLC

\* ------------------------------------------------------------------ bounds
NumFiles == 2        \* files of the modelled board (a, b, ...)
MaxOps == 3          \* session operations performed after construction

\* ------------------------------------------------------- program constants
NumRanks == 8        \* every piece-square grid has 8 rows
SearchDepth == 3     \* calcAiMove: minimax(3, ...)
Infinity == 1000000  \* stands for +Infinity; every score stays far below it

NoPiece == "-"       \* an absent (undefined) piece type, e.g. move.captured
Undefined == "undefined"   \* the color field before init assigns it
Null == [none |-> TRUE]    \* the null (or undefined) Move

Other(c) == IF c = "w" THEN "b" ELSE "w"
Max(a, b) == IF a >= b THEN a ELSE b
Min(a, b) == IF a <= b THEN a ELSE b

PieceTypes == {"p", "n", "q"}

\* ------------------------------------------------ constants/chess-weights
\* Material weights.
PIECE_WEIGHTS == [p |-> 100, n |-> 280, q |-> 929]

\* One grid row of NumFiles columns: base value plus a per-column offset.
GridRow(base, step) == [c \in 1..NumFiles |-> base + step * ((c - 1) % 2)]

\* The base (white-oriented) piece-square tables as authored: for each piece
\* type a sequence of 8 rows (row index 0 first, the far side for white),
\* each a sequence of NumFiles columns.  Not symmetric under a vertical flip.
BaseSquareTables ==
  [p |-> << GridRow(9, 0), GridRow(7, 1), GridRow(5, 1), GridRow(3, 2),
            GridRow(2, 2), GridRow(1, 0), GridRow(0, 1), GridRow(0, 0) >>,
   n |-> << GridRow(-5, 1), GridRow(-2, 1), GridRow(1, 1), GridRow(2, 1),
            GridRow(2, 0), GridRow(0, 1), GridRow(-3, 1), GridRow(-6, 2) >>,
   q |-> << GridRow(-2, 1), GridRow(0, 0), GridRow(1, 0), GridRow(1, 1),
            GridRow(0, 1), GridRow(1, 0), GridRow(-1, 1), GridRow(-3, 1) >>]

\* utils/chess getMatrixPosition: algebraic square <<file, rank>> to the
\* 0-based matrix position; rank 8 is row 0, file a is column 0.
getMatrixPosition(sq) == [row |-> NumRanks - sq[2], column |-> sq[1] - 1]

\* ------------------------------------------------------------ rules engine
Files == 1..NumFiles
Ranks == 1..NumRanks
Squares == Files \X Ranks
Empty == [type |-> NoPiece, color |-> NoPiece]
OnBoard(f, r) == f \in Files /\ r \in Ranks

\* The squares in the engine's scan order: a8, b8, ..., then rank 7, ...
SquareAt(i) == << ((i - 1) % NumFiles) + 1, NumRanks - ((i - 1) \div NumFiles) >>
NumSquares == NumFiles * NumRanks

RECURSIVE Flatten(_)
Flatten(ss) == IF ss = << >> THEN << >> ELSE Head(ss) \o Flatten(Tail(ss))

LastRank(c) == IF c = "w" THEN NumRanks ELSE 1
Forward(c) == IF c = "w" THEN 1 ELSE -1

\* A fully populated Move record, as chessEngine.move returns it.  The flags
\* are "n" for a quiet move, "c" for a capture, "p" for a promotion (the
\* value evaluateBoard compares with) and "cp" for a capturing promotion.
MkMove(board, c, from, to, promo) ==
  LET cap == board[to].type
  IN  [color |-> c, from |-> from, to |-> to, piece |-> board[from].type,
       captured |-> cap, promotion |-> promo,
       flags |-> IF promo # NoPiece
                   THEN (IF cap # NoPiece THEN "cp" ELSE "p")
                   ELSE (IF cap # NoPiece THEN "c" ELSE "n")]

PawnMoves(board, c, from) ==
  LET f == from[1]
      r == from[2] + Forward(c)
      promo == IF r = LastRank(c) THEN "q" ELSE NoPiece
      push == IF OnBoard(f, r) /\ board[<<f, r>>] = Empty
                THEN << MkMove(board, c, from, <<f, r>>, promo) >> ELSE << >>
      take(df) == IF OnBoard(f + df, r) /\ board[<<f + df, r>>].color = Other(c)
                    THEN << MkMove(board, c, from, <<f + df, r>>, promo) >>
                    ELSE << >>
  IN  IF c = "w" THEN push \o take(-1) \o take(1)
                 ELSE push \o take(1) \o take(-1)

KnightOffsets == << <<-2, 1>>, <<-1, 2>>, <<1, 2>>, <<2, 1>>,
                    <<2, -1>>, <<1, -2>>, <<-1, -2>>, <<-2, -1>> >>
QueenOffsets == << <<-1, 1>>, <<0, 1>>, <<1, 1>>, <<1, 0>>,
                   <<1, -1>>, <<0, -1>>, <<-1, -1>>, <<-1, 0>> >>

KnightMoves(board, c, from) ==
  Flatten([i \in 1..Len(KnightOffsets) |->
    LET f == from[1] + KnightOffsets[i][1]
        r == from[2] + KnightOffsets[i][2]
    IN  IF OnBoard(f, r) /\ board[<<f, r>>].color # c
          THEN << MkMove(board, c, from, <<f, r>>, NoPiece) >> ELSE << >>])

\* Sliding: the k-th square along an offset is reached when every square
\* before it on the ray is empty and it is not held by the mover's own piece.
QueenMoves(board, c, from) ==
  Flatten([i \in 1..Len(QueenOffsets) |->
    Flatten([k \in 1..(NumRanks - 1) |->
      LET f == from[1] + k * QueenOffsets[i][1]
          r == from[2] + k * QueenOffsets[i][2]
          clear == \A j \in 1..(k - 1) :
                     board[<< from[1] + j * QueenOffsets[i][1],
                              from[2] + j * QueenOffsets[i][2] >>] = Empty
      IN  IF OnBoard(f, r) /\ clear /\ board[<<f, r>>].color # c
            THEN << MkMove(board, c, from, <<f, r>>, NoPiece) >> ELSE << >>])])

PieceMoves(board, c, from) ==
  CASE board[from].type = "p" -> PawnMoves(board, c, from)
    [] board[from].type = "n" -> KnightMoves(board, c, from)
    [] board[from].type = "q" -> QueenMoves(board, c, from)
    [] OTHER -> << >>

\* chessEngine.moves(): the legal moves of the side to move, in scan order.
LegalMoves(eng) ==
  Flatten([i \in 1..NumSquares |->
    IF eng.board[SquareAt(i)].color = eng.turn
      THEN PieceMoves(eng.board, eng.turn, SquareAt(i)) ELSE << >>])

SeqToSet(s) == {s[i] : i \in 1..Len(s)}

\* The engine after the legal move m: the piece (or the piece it promotes
\* to) on its target square, the other side to move, m last in the history.
Played(eng, m) ==
  [board |-> [eng.board EXCEPT
                ![m.from] = Empty,
                ![m.to] = [type |-> IF m.promotion # NoPiece
                                      THEN m.promotion ELSE m.piece,
                           color |-> m.color]],
   turn |-> Other(eng.turn),
   history |-> Append(eng.history, m)]

\* chessEngine.move(m): applies m and pushes it on the engine's history.
\* A move that is not legal in the position leaves the engine as it is.
MakeMove(eng, m) ==
  IF m = Null \/ m \notin SeqToSet(LegalMoves(eng)) THEN eng
  ELSE Played(eng, m)

\* chessEngine.undo(): takes back the last move of the history, if any.
UndoMove(eng) ==
  IF eng.history = << >> THEN eng
  ELSE LET m == eng.history[Len(eng.history)]
       IN  [board |-> [eng.board EXCEPT
                         ![m.from] = [type |-> m.piece, color |-> m.color],
                         ![m.to] = IF m.captured # NoPiece
                                     THEN [type |-> m.captured,
                                           color |-> Other(m.color)]
                                     ELSE Empty],
            turn |-> m.color,
            history |-> SubSeq(eng.history, 1, Len(eng.history) - 1)]

\* chessEngine.fen(): the serialized position (placement and side to move).
Fen(eng) == [board |-> eng.board, turn |-> eng.turn]
\* chessEngine.load(fen): the position of the fen, with an empty history.
LoadFen(fen) == [board |-> fen.board, turn |-> fen.turn, history |-> << >>]
\* chessEngine.remove(square) / chessEngine.put(piece, square)
RemovePiece(eng, sq) == [eng EXCEPT !.board[sq] = Empty]
PutPiece(eng, piece, sq) == [eng EXCEPT !.board[sq] = piece]

\* A position given by the pieces on it.
Place(pieces) ==
  [sq \in Squares |->
     IF \E x \in pieces : x[1] = sq
       THEN LET x == CHOOSE y \in pieces : y[1] = sq
            IN  [type |-> x[3], color |-> x[2]]
       ELSE Empty]

\* new Chess(): the engine's default position, the standard start on the
\* modelled files without the pieces the reduced engine has not.
DefaultFen ==
  [board |-> Place({ <<<<1, 2>>, "w", "p">>, <<<<2, 2>>, "w", "p">>,
                     <<<<2, 1>>, "w", "n">>,
                     <<<<1, 7>>, "b", "p">>, <<<<2, 7>>, "b", "p">>,
                     <<<<2, 8>>, "b", "n">> }),
   turn |-> "w"]

\* The positions init is called with (its fen argument).
StartFens ==
  { \* a white pawn about to promote, by a push or by taking the knight
    [board |-> Place({ <<<<1, 7>>, "w", "p">>, <<<<2, 1>>, "w", "n">>,
                       <<<<2, 8>>, "b", "n">>, <<<<2, 3>>, "b", "p">> }),
     turn |-> "w"],
    \* pawns in contact, either side to move
    [board |-> Place({ <<<<1, 4>>, "w", "p">>, <<<<2, 3>>, "w", "n">>,
                       <<<<2, 5>>, "b", "p">>, <<<<1, 6>>, "b", "n">> }),
     turn |-> "w"],
    [board |-> Place({ <<<<1, 4>>, "w", "p">>, <<<<2, 3>>, "w", "n">>,
                       <<<<2, 5>>, "b", "p">>, <<<<1, 6>>, "b", "n">> }),
     turn |-> "b"],
    \* a black pawn about to promote, black to move
    [board |-> Place({ <<<<2, 2>>, "b", "p">>, <<<<1, 1>>, "w", "n">>,
                       <<<<1, 5>>, "w", "p">>, <<<<2, 6>>, "b", "p">> }),
     turn |-> "b"],
    \* blocked pawns: the side to move has no legal move
    [board |-> Place({ <<<<1, 4>>, "w", "p">>, <<<<1, 5>>, "b", "p">>,
                       <<<<2, 8>>, "b", "n">> }),
     turn |-> "w"] }

\* ------------------------------------------------------------------ state
VARIABLES
  PIECE_SQUARE_TABLES,   \* the shared base tables (constants/chess-weights)
  color,                 \* this.color
  aiSquareTables,        \* this.aiSquareTables
  opponentSquareTables,  \* this.opponentSquareTables
  chessEngine,           \* this.chessEngine: [board, turn, history]
  prevSum,               \* this.prevSum, the running score
  stack,                 \* the active minimax calls, innermost last
  ret,                   \* the value a minimax call has just returned
  pc,                    \* "idle"; "calc" while calcAiMove is running;
                         \* "minimax" while a direct minimax call is running
  result,                \* what the last session operation gave its caller
  outcome,               \* "ok", or "TypeError" when the last operation threw
  lastCall,              \* the last operation called and its Move argument
  rootCall,              \* the running root call of minimax, as it started
  pruned,                \* a loop of the running search was cut short
  ops                    \* operations called so far

vars == << PIECE_SQUARE_TABLES, color, aiSquareTables, opponentSquareTables,
           chessEngine, prevSum, stack, ret, pc, result, outcome, lastCall,
           rootCall, pruned, ops >>

\* Tables never assigned: every grid is missing.
UndefinedTables == [p \in PieceTypes |-> << >>]

\* ----------------------------------------------------------- table builder
Reverse(s) == [i \in 1..Len(s) |-> s[Len(s) + 1 - i]]
cloneDeep(x) == x

\* reverseSquareTablesForBlack: a deep copy with every grid's rows reversed.
reverseSquareTablesForBlack(shared) ==
  LET cloned == cloneDeep(shared)
  IN  [p \in DOMAIN cloned |-> Reverse(cloned[p])]

\* Mutant: the rows reversed in the tables given, with no copy made.
sharedAfterReverseNoClone(shared) ==
  [p \in DOMAIN shared |-> Reverse(shared[p])]
\* What a call of reverseSquareTablesForBlack leaves in the tables it read:
\* value.reverse() reverses in place, and the grids it reverses are those
\* of the deep copy.
sharedAfterReverse(shared) == shared

blackStartInit(shared) ==
  [ai |-> reverseSquareTablesForBlack(shared), opponent |-> cloneDeep(shared)]

\* Mutant: the opponent's tables cloned as they are, not reversed.
whiteStartInitBothBase(shared) ==
  [ai |-> cloneDeep(shared), opponent |-> cloneDeep(shared)]

whiteStartInit(shared) ==
  [ai |-> cloneDeep(shared), opponent |-> reverseSquareTablesForBlack(shared)]

isBlack(c) == c = "b"

\* --------------------------------------------------- incremental evaluator
getOpponentValueFromSquareTable(piece, pos) ==
  opponentSquareTables[piece][pos.row + 1][pos.column + 1]

getAiValueFromSquareTable(piece, pos) ==
  aiSquareTables[piece][pos.row + 1][pos.column + 1]

\* if (captured) { ... }
CaptureBranch(move, sum) ==
  LET to == getMatrixPosition(move.to)
  IN  IF move.captured # NoPiece
        THEN IF move.color = color
               THEN sum + (PIECE_WEIGHTS[move.captured]
                           + getAiValueFromSquareTable(move.captured, to))
               ELSE sum - (PIECE_WEIGHTS[move.captured]
                           + getOpponentValueFromSquareTable(move.captured, to))
        ELSE sum

\* if (move.flags === "p") { ... }
PromotionBranch(move, sum) ==
  LET from == getMatrixPosition(move.from)
      to == getMatrixPosition(move.to)
      promoted == "q"
  IN  IF move.color = color
        THEN (sum - (PIECE_WEIGHTS[move.piece]
                     + getAiValueFromSquareTable(move.piece, from)))
             + (PIECE_WEIGHTS[promoted]
                + getAiValueFromSquareTable(promoted, from))
        ELSE (sum + (PIECE_WEIGHTS[move.piece]
                     + getOpponentValueFromSquareTable(move.piece, from)))
             - (PIECE_WEIGHTS[promoted]
                + getOpponentValueFromSquareTable(move.piece, to))

\* else { ... }: the regular move
RegularBranch(move, sum) ==
  LET from == getMatrixPosition(move.from)
      to == getMatrixPosition(move.to)
  IN  IF move.color = color
        THEN (sum - getAiValueFromSquareTable(move.piece, from))
             + getAiValueFromSquareTable(move.piece, to)
        ELSE (sum + getAiValueFromSquareTable(move.piece, from))
             - getAiValueFromSquareTable(move.piece, to)

\* Mutant: the capture rule made exclusive of the other two.
evaluateBoardExclusive(move, sum) ==
  IF move.captured # NoPiece THEN CaptureBranch(move, sum)
  ELSE IF move.flags = "p" THEN PromotionBranch(move, sum)
  ELSE RegularBranch(move, sum)

evaluateBoard(move, sum) ==
  LET afterCapture == CaptureBranch(move, sum)
  IN  IF move.flags = "p" THEN PromotionBranch(move, afterCapture)
                          ELSE RegularBranch(move, afterCapture)

\* Mutant: evaluateBoard storing its result in this.prevSum.
prevSumAfterEvaluateStored(field, newSum) == newSum
\* What a call of evaluateBoard leaves in this.prevSum: the function works
\* on its parameter and its local newSum and returns it; the field is
\* assigned by the callers that mean to (lines 232 and 258).
prevSumAfterEvaluate(field, newSum) == field

\* Every path of evaluateBoard reads a grid of a perspective table, which
\* throws a TypeError while the tables are undefined.
evaluateBoardThrows ==
  aiSquareTables = UndefinedTables \/ opponentSquareTables = UndefinedTables

\* ------------------------------------------------------------------ search
\* A minimax call: its parameters, its locals and where it stands.
\*   "enter": at line 157      "loop": at the loop head (167)
\*   "call":  move applied and evaluated, about to recurse (170)
\*   "wait":  the recursive call is running
\*   "undo":  the recursive call has returned, about to undo (178)
\*   "exit":  after the loop (203)
NewCall(depth, sum, isMaximizingPlayer, alpha, beta, eng) ==
  [depth |-> depth, sum |-> sum, isMaximizingPlayer |-> isMaximizingPlayer,
   alpha |-> alpha, beta |-> beta,
   maxVal |-> -Infinity, minVal |-> Infinity,
   bestMove |-> Null, currentMove |-> Null, newSum |-> 0,
   moves |-> << >>, idx |-> 1, pc |-> "enter",
   \* history: the engine when the call started, the child values so far
   entry |-> eng, seen |-> << >>]

Top == stack[Len(stack)]
SetTop(f) == [stack EXCEPT ![Len(stack)] = f]
Pop == SubSeq(stack, 1, Len(stack) - 1)
\* The caller of the returning call goes on after its recursive call.
PopAndResume ==
  IF Len(stack) = 1 THEN << >>
  ELSE [Pop EXCEPT ![Len(stack) - 1].pc = "undo"]

\* Mutant: the test for a position without moves left out.
IsLeafDepthOnly(depth, moves) == depth = 0
IsLeaf(depth, moves) == depth = 0 \/ Len(moves) = 0
LeafResult(sum) == [move |-> Null, value |-> sum]

BetterForMax(childValue, maxVal) == childValue > maxVal
\* Mutant: an equal value replaces the best move of a minimizing node.
BetterForMinOrEqual(childValue, minVal) == childValue <= minVal
BetterForMin(childValue, minVal) == childValue < minVal
\* Mutant: the comparison of the window turned around.
CutoffTurned(alpha, beta) == alpha <= beta
Cutoff(alpha, beta) == beta <= alpha
\* Mutant: the move of the recursive call not taken back.
UndoAfterChildMissing(eng) == eng
\* this.chessEngine.undo() after the recursive call
UndoAfterChild(eng) == UndoMove(eng)

Searching == pc \in {"calc", "minimax"} /\ stack # << >>

\* No call is running: nothing was returned and there is no root call.
NoResult == LeafResult(0)
NoCall == NewCall(0, 0, TRUE, -Infinity, Infinity, LoadFen(DefaultFen))

\* lines 157-165, the early return
MinimaxLeaf ==
  /\ Searching /\ Top.pc = "enter"
  /\ IsLeaf(Top.depth, LegalMoves(chessEngine))
  /\ ret' = LeafResult(Top.sum)
  /\ stack' = PopAndResume
  /\ UNCHANGED << PIECE_SQUARE_TABLES, color, aiSquareTables,
                  opponentSquareTables, chessEngine, prevSum, pc, result,
                  outcome, lastCall, rootCall, pruned, ops >>

\* lines 157-165, going on to the loop
MinimaxExpand ==
  /\ Searching /\ Top.pc = "enter"
  /\ ~IsLeaf(Top.depth, LegalMoves(chessEngine))
  /\ stack' = SetTop([Top EXCEPT !.moves = LegalMoves(chessEngine),
                                 !.idx = 1, !.pc = "loop"])
  /\ UNCHANGED << PIECE_SQUARE_TABLES, color, aiSquareTables,
                  opponentSquareTables, chessEngine, prevSum, ret, pc, result,
                  outcome, lastCall, rootCall, pruned, ops >>

\* lines 167-169: apply the next move and evaluate it
MinimaxApply ==
  /\ Searching /\ Top.pc = "loop" /\ Top.idx <= Len(Top.moves)
  /\ ~evaluateBoardThrows
  /\ LET m == Top.moves[Top.idx]
     IN  /\ chessEngine' = MakeMove(chessEngine, m)
         /\ stack' = SetTop([Top EXCEPT !.currentMove = m,
                                        !.newSum = evaluateBoard(m, Top.sum),
                                        !.pc = "call"])
         /\ prevSum' = prevSumAfterEvaluate(prevSum,
                                            evaluateBoard(m, Top.sum))
  /\ UNCHANGED << PIECE_SQUARE_TABLES, color, aiSquareTables,
                  opponentSquareTables, ret, pc, result, outcome,
                  lastCall, rootCall, pruned, ops >>

\* lines 167-169 on a session that was never initialized: the move is
\* applied, evaluateBoard throws, and the exception leaves calcAiMove.
MinimaxApplyThrows ==
  /\ Searching /\ Top.pc = "loop" /\ Top.idx <= Len(Top.moves)
  /\ evaluateBoardThrows
  /\ chessEngine' = MakeMove(chessEngine, Top.moves[Top.idx])
  /\ stack' = << >>
  /\ pc' = "idle"
  /\ outcome' = "TypeError"
  /\ result' = Null
  /\ ret' = NoResult
  /\ rootCall' = NoCall
  /\ pruned' = FALSE
  /\ UNCHANGED << PIECE_SQUARE_TABLES, color, aiSquareTables,
                  opponentSquareTables, prevSum, lastCall, ops >>

\* lines 170-176: the recursive call
MinimaxRecurse ==
  /\ Searching /\ Top.pc = "call"
  /\ stack' = Append(SetTop([Top EXCEPT !.pc = "wait"]),
                     NewCall(Top.depth - 1, Top.newSum,
                             ~Top.isMaximizingPlayer, Top.alpha, Top.beta,
                             chessEngine))
  /\ UNCHANGED << PIECE_SQUARE_TABLES, color, aiSquareTables,
                  opponentSquareTables, chessEngine, prevSum, ret, pc, result,
                  outcome, lastCall, rootCall, pruned, ops >>

\* Mutant: the window tested before the best is kept, so that a child value
\* that closes the window leaves the loop without being recorded.
AfterChildBreakFirst(f, childValue) ==
  IF f.isMaximizingPlayer
    THEN LET alpha == Max(f.alpha, childValue)
             better == ~Cutoff(alpha, f.beta)
                         /\ BetterForMax(childValue, f.maxVal)
         IN  [f EXCEPT !.seen = Append(@, childValue),
                       !.maxVal = IF better THEN childValue ELSE @,
                       !.bestMove = IF better THEN f.currentMove ELSE @,
                       !.alpha = alpha,
                       !.pc = IF Cutoff(alpha, f.beta) \/ f.idx = Len(f.moves)
                                THEN "exit" ELSE "loop",
                       !.idx = IF Cutoff(alpha, f.beta) THEN @ ELSE @ + 1]
    ELSE LET beta == Min(childValue, f.beta)
             better == ~Cutoff(f.alpha, beta)
                         /\ BetterForMin(childValue, f.minVal)
         IN  [f EXCEPT !.seen = Append(@, childValue),
                       !.minVal = IF better THEN childValue ELSE @,
                       !.bestMove = IF better THEN f.currentMove ELSE @,
                       !.beta = beta,
                       !.pc = IF Cutoff(f.alpha, beta) \/ f.idx = Len(f.moves)
                                THEN "exit" ELSE "loop",
                       !.idx = IF Cutoff(f.alpha, beta) THEN @ ELSE @ + 1]

\* lines 178-200: undo, keep the best, narrow the window, maybe break
AfterChild(f, childValue) ==
  IF f.isMaximizingPlayer
    THEN LET better == BetterForMax(childValue, f.maxVal)
             alpha == Max(f.alpha, childValue)
         IN  [f EXCEPT !.seen = Append(@, childValue),
                       !.maxVal = IF better THEN childValue ELSE @,
                       !.bestMove = IF better THEN f.currentMove ELSE @,
                       !.alpha = alpha,
                       !.pc = IF Cutoff(alpha, f.beta) \/ f.idx = Len(f.moves)
                                THEN "exit" ELSE "loop",
                       !.idx = IF Cutoff(alpha, f.beta) THEN @ ELSE @ + 1]
    ELSE LET better == BetterForMin(childValue, f.minVal)
             beta == Min(childValue, f.beta)
         IN  [f EXCEPT !.seen = Append(@, childValue),
                       !.minVal = IF better THEN childValue ELSE @,
                       !.bestMove = IF better THEN f.currentMove ELSE @,
                       !.beta = beta,
                       !.pc = IF Cutoff(f.alpha, beta) \/ f.idx = Len(f.moves)
                                THEN "exit" ELSE "loop",
                       !.idx = IF Cutoff(f.alpha, beta) THEN @ ELSE @ + 1]

\* The loop of f ended by break with moves left untried.
CutShort(f) == f.pc = "exit" /\ f.idx < Len(f.moves)

MinimaxUndo ==
  /\ Searching /\ Top.pc = "undo"
  /\ chessEngine' = UndoAfterChild(chessEngine)
  /\ stack' = SetTop(AfterChild(Top, ret.value))
  /\ pruned' = (pruned \/ CutShort(AfterChild(Top, ret.value)))
  /\ UNCHANGED << PIECE_SQUARE_TABLES, color, aiSquareTables,
                  opponentSquareTables, prevSum, ret, pc, result, outcome,
                  lastCall, rootCall, ops >>

\* lines 203-207
MinimaxResult(f) ==
  [move |-> f.bestMove,
   value |-> IF f.isMaximizingPlayer THEN f.maxVal ELSE f.minVal]

MinimaxReturn ==
  /\ Searching /\ Top.pc = "exit"
  /\ ret' = MinimaxResult(Top)
  /\ stack' = PopAndResume
  /\ UNCHANGED << PIECE_SQUARE_TABLES, color, aiSquareTables,
                  opponentSquareTables, chessEngine, prevSum, pc, result,
                  outcome, lastCall, rootCall, pruned, ops >>

\* ----------------------------------------------------------------- session
Idle == pc = "idle" /\ ops < MaxOps

\* init(color, fen); prevSum is not assigned
init(c, fen) ==
  /\ Idle
  /\ color' = c
  /\ chessEngine' = LoadFen(fen)
  /\ LET t == IF isBlack(c) THEN blackStartInit(PIECE_SQUARE_TABLES)
                            ELSE whiteStartInit(PIECE_SQUARE_TABLES)
     IN  /\ aiSquareTables' = t.ai
         /\ opponentSquareTables' = t.opponent
  /\ result' = Null
  /\ outcome' = "ok"
  /\ PIECE_SQUARE_TABLES' = sharedAfterReverse(PIECE_SQUARE_TABLES)
  /\ lastCall' = [op |-> "init", move |-> Null]
  /\ ops' = ops + 1
  /\ UNCHANGED << prevSum, stack, ret, pc, rootCall, pruned >>

\* updateBoardWithPlayerMove(move)
updateBoardWithPlayerMove(move) ==
  /\ Idle
  /\ chessEngine' = MakeMove(chessEngine, move)
  /\ IF evaluateBoardThrows
       THEN /\ outcome' = "TypeError"
            /\ UNCHANGED prevSum
       ELSE /\ outcome' = "ok"
            /\ prevSum' = evaluateBoard(move, prevSum)
  /\ result' = Null
  /\ lastCall' = [op |-> "updateBoardWithPlayerMove", move |-> move]
  /\ ops' = ops + 1
  /\ UNCHANGED << PIECE_SQUARE_TABLES, color, aiSquareTables,
                  opponentSquareTables, stack, ret, pc, rootCall, pruned >>

\* updateChessEngineWithPromotion(payload); prevSum is not assigned
updateChessEngineWithPromotion(payload) ==
  /\ Idle
  /\ LET moved == IF payload.move # Null
                    THEN MakeMove(chessEngine, payload.move) ELSE chessEngine
         removed == RemovePiece(moved, payload.chessNotationPos)
         placed == PutPiece(removed, [type |-> payload.pieceType,
                                      color |-> payload.color],
                            payload.chessNotationPos)
     IN  chessEngine' = LoadFen(Fen(placed))
  /\ result' = Null
  /\ outcome' = "ok"
  /\ lastCall' = [op |-> "updateChessEngineWithPromotion",
                  move |-> payload.move]
  /\ ops' = ops + 1
  /\ UNCHANGED << PIECE_SQUARE_TABLES, color, aiSquareTables,
                  opponentSquareTables, prevSum, stack, ret, pc, rootCall,
                  pruned >>

\* calcAiMove, lines 250-256: the root call of the search
\* Mutant: the root call made for the minimizing side.
RootCallMinimizing(sum, eng) ==
  NewCall(SearchDepth, sum, FALSE, -Infinity, Infinity, eng)
RootCall(sum, eng) == NewCall(SearchDepth, sum, TRUE, -Infinity, Infinity, eng)

calcAiMoveStart ==
  /\ Idle
  /\ stack' = << RootCall(prevSum, chessEngine) >>
  /\ pc' = "calc"
  /\ rootCall' = RootCall(prevSum, chessEngine)
  /\ lastCall' = [op |-> "calcAiMove", move |-> Null]
  /\ pruned' = FALSE
  /\ ops' = ops + 1
  /\ UNCHANGED << PIECE_SQUARE_TABLES, color, aiSquareTables,
                  opponentSquareTables, chessEngine, prevSum, ret, result,
                  outcome >>

\* calcAiMove, lines 258-261: keep the sum, play the move, return it.
\* A null move (no legal move in the position) applies nothing.
calcAiMoveFinish ==
  /\ pc = "calc" /\ stack = << >>
  /\ prevSum' = ret.value
  /\ chessEngine' = MakeMove(chessEngine, ret.move)
  /\ result' = ret.move
  /\ outcome' = "ok"
  /\ pc' = "idle"
  /\ ret' = NoResult
  /\ rootCall' = NoCall
  /\ pruned' = FALSE
  /\ UNCHANGED << PIECE_SQUARE_TABLES, color, aiSquareTables,
                  opponentSquareTables, stack, lastCall, ops >>

\* minimax called on its own, with any arguments, on a position just
\* loaded in a session that has scored no move: the search as a function.
minimaxStart(depth, sum, isMaximizingPlayer, alpha, beta) ==
  /\ Idle
  /\ chessEngine.history = << >> /\ prevSum = 0
  /\ stack' = << NewCall(depth, sum, isMaximizingPlayer, alpha, beta,
                         chessEngine) >>
  /\ pc' = "minimax"
  /\ rootCall' = NewCall(depth, sum, isMaximizingPlayer, alpha, beta,
                         chessEngine)
  /\ lastCall' = [op |-> "minimax", move |-> Null]
  /\ pruned' = FALSE
  /\ ops' = ops + 1
  /\ UNCHANGED << PIECE_SQUARE_TABLES, color, aiSquareTables,
                  opponentSquareTables, chessEngine, prevSum, ret, result,
                  outcome >>

minimaxFinish ==
  /\ pc = "minimax" /\ stack = << >>
  /\ result' = ret.move
  /\ outcome' = "ok"
  /\ pc' = "idle"
  /\ ret' = NoResult
  /\ rootCall' = NoCall
  /\ pruned' = FALSE
  /\ UNCHANGED << PIECE_SQUARE_TABLES, color, aiSquareTables,
                  opponentSquareTables, chessEngine, prevSum, stack,
                  lastCall, ops >>

\* The scores a direct call is given.
Scores == {0, 15}

\* The windows a direct call is given: full, half open and narrow around
\* the score.
Windows(sum) ==
  { << -Infinity, Infinity >>, << -Infinity, sum + 1 >>,
    << sum - 1, Infinity >>, << sum - 2, sum + 2 >> }

\* The moves the surrounding application reports: legal in the position.
PlayerMoves == SeqToSet(LegalMoves(chessEngine))

\* The promotion payloads of the application: a legal promotion move with the
\* piece chosen for its target square, or no move and a square of the far
\* rank whose piece is to be replaced.
PromotionPayloads ==
  { [move |-> m, chessNotationPos |-> m.to, pieceType |-> t, color |-> m.color] :
      m \in {x \in PlayerMoves : x.promotion # NoPiece}, t \in {"q", "n"} }
  \cup
  { [move |-> Null, chessNotationPos |-> sq, pieceType |-> t,
     color |-> chessEngine.board[sq].color] :
      sq \in {s \in Squares : /\ chessEngine.board[s] # Empty
                              /\ s[2] = LastRank(chessEngine.board[s].color)},
      t \in {"q", "n"} }

Init ==
  /\ PIECE_SQUARE_TABLES = BaseSquareTables
  /\ color = Undefined
  /\ aiSquareTables = UndefinedTables
  /\ opponentSquareTables = UndefinedTables
  /\ chessEngine = LoadFen(DefaultFen)
  /\ prevSum = 0
  /\ stack = << >>
  /\ ret = NoResult
  /\ pc = "idle"
  /\ result = Null
  /\ outcome = "ok"
  /\ lastCall = [op |-> "new", move |-> Null]
  /\ rootCall = NoCall
  /\ pruned = FALSE
  /\ ops = 0

Next ==
  \/ \E c \in {"w", "b"}, fen \in StartFens : init(c, fen)
  \/ \E move \in PlayerMoves : updateBoardWithPlayerMove(move)
  \/ \E payload \in PromotionPayloads : updateChessEngineWithPromotion(payload)
  \/ calcAiMoveStart
  \/ MinimaxLeaf
  \/ MinimaxExpand
  \/ MinimaxApply
  \/ MinimaxApplyThrows
  \/ MinimaxRecurse
  \/ MinimaxUndo
  \/ MinimaxReturn
  \/ calcAiMoveFinish

Spec == Init /\ [][Next]_vars

\* The session together with direct calls of minimax.
NextMinimax ==
  \/ Next
  \/ \E depth \in 0..SearchDepth, sum \in Scores,
        isMaximizingPlayer \in BOOLEAN :
       \E w \in Windows(sum) :
         minimaxStart(depth, sum, isMaximizingPlayer, w[1], w[2])
  \/ minimaxFinish

SpecMinimax == Init /\ [][NextMinimax]_vars

TypeOK ==
  /\ pc \in {"idle", "calc", "minimax"}
  /\ color \in {Undefined, "w", "b"}
  /\ ops \in 0..MaxOps
  /\ (pc = "idle" => stack = << >>)

\* ------------------------------------------------------------------ claims

\* The better of the best so far and a move with its child value: the move
\* replaces the best only when its value is strictly better.
PlainBest(isMaximizingPlayer, best, move, childValue) ==
  IF (isMaximizingPlayer /\ childValue > best.value)
       \/ (~isMaximizingPlayer /\ childValue < best.value)
    THEN [move |-> move, value |-> childValue]
    ELSE best

\* Plain minimax without pruning over the same tree: the same leaf rule, the
\* same evaluator, the same enumeration order, strict improvement only.
RECURSIVE PlainMinimax(_, _, _, _), PlainLoop(_, _, _, _, _, _, _)
PlainMinimax(eng, depth, sum, isMaximizingPlayer) ==
  IF depth = 0 \/ Len(LegalMoves(eng)) = 0 THEN [move |-> Null, value |-> sum]
  ELSE PlainLoop(eng, depth, sum, isMaximizingPlayer, LegalMoves(eng), 1,
                 [move |-> Null,
                  value |-> IF isMaximizingPlayer THEN -Infinity ELSE Infinity])

\* The moves from the i-th on, tried in order; best is the best move so far
\* and its value.
PlainLoop(eng, depth, sum, isMaximizingPlayer, moves, i, best) ==
  IF i > Len(moves) THEN best
  ELSE PlainLoop(eng, depth, sum, isMaximizingPlayer, moves, i + 1,
                 PlainBest(isMaximizingPlayer, best, moves[i],
                           PlainMinimax(Played(eng, moves[i]), depth - 1,
                                        evaluateBoard(moves[i], sum),
                                        ~isMaximizingPlayer).value))

\* A root call has returned and its caller has not yet gone on.
Returned == pc \in {"calc", "minimax"} /\ stack = << >>
FullWindowMaxRoot ==
  /\ rootCall.isMaximizingPlayer
  /\ rootCall.alpha = -Infinity /\ rootCall.beta = Infinity

\* C1: a root call with maximizing = true and the full window, at any depth
\* up to 3, returns the move and the value of plain minimax over the same
\* tree.
C1_AlphaBetaEquivalence ==
  (Returned /\ FullWindowMaxRoot) =>
    ret = PlainMinimax(rootCall.entry, rootCall.depth, rootCall.sum, TRUE)

\* C1 witness: a depth-3 root call has returned after pruning, with a move
\* that is not the first one enumerated.
C1_Witness ==
  /\ Returned /\ FullWindowMaxRoot /\ rootCall.depth = SearchDepth
  /\ pruned
  /\ ret.move # Null
  /\ ret.move # LegalMoves(rootCall.entry)[1]
  /\ ret = PlainMinimax(rootCall.entry, rootCall.depth, rootCall.sum, TRUE)

\* C2: whenever a minimax call is at its start, at its loop head or about to
\* return, and when the root call has returned, the engine (position and
\* history) is the one the call started with.
C2_PositionRestored ==
  /\ (Searching /\ Top.pc \in {"enter", "loop", "exit"}) =>
       chessEngine = Top.entry
  /\ Returned => chessEngine = rootCall.entry

\* C2 witness: an inner call whose loop was cut short by pruning is about to
\* return, with the engine as it was when the call started.
C2_Witness ==
  /\ Searching /\ Len(stack) >= 2
  /\ CutShort(Top) /\ Len(Top.seen) >= 1
  /\ chessEngine = Top.entry

\* C3: a call with depth 0, or at a position without legal moves, returns
\* (none, score) at once and leaves the engine alone.
C3_LeafReturnsScore ==
  [][(Searching /\ Top.pc = "enter"
        /\ (Top.depth = 0 \/ Len(LegalMoves(chessEngine)) = 0))
     => /\ ret' = [move |-> Null, value |-> Top.sum]
        /\ chessEngine' = chessEngine
        /\ Len(stack') = Len(stack) - 1]_vars

\* C3 witness: a direct call with depth 0 and maximizing = true, in a
\* position that has legal moves, has returned (none, score).
C3_Witness ==
  /\ Returned /\ pc = "minimax"
  /\ rootCall.depth = 0 /\ rootCall.isMaximizingPlayer
  /\ rootCall.alpha # -Infinity
  /\ Len(LegalMoves(chessEngine)) > 0
  /\ ret = [move |-> Null, value |-> rootCall.sum]
  /\ chessEngine = rootCall.entry

\* The first position of the best value in a sequence of child values.
FirstBest(seen, isMaximizingPlayer) ==
  CHOOSE i \in 1..Len(seen) :
    /\ \A j \in 1..Len(seen) :
         IF isMaximizingPlayer THEN seen[j] <= seen[i] ELSE seen[j] >= seen[i]
    /\ \A j \in 1..(i - 1) : seen[j] # seen[i]

\* Two of the child values are the best value.
TiedBest(f) ==
  /\ Len(f.seen) >= 2
  /\ \E j \in 1..Len(f.seen) :
       /\ j # FirstBest(f.seen, f.isMaximizingPlayer)
       /\ f.seen[j] = f.seen[FirstBest(f.seen, f.isMaximizingPlayer)]

\* C4: in every active call, the best move so far is the first move in
\* enumeration order whose child value is the best child value so far
\* (the greatest at a maximizing node, the least at a minimizing node), and
\* the best value kept is that value.
C4_FirstBestWins ==
  \A k \in 1..Len(stack) :
    LET f == stack[k]
    IN  Len(f.seen) >= 1 =>
          LET i == FirstBest(f.seen, f.isMaximizingPlayer)
          IN  /\ f.bestMove = f.moves[i]
              /\ (IF f.isMaximizingPlayer THEN f.maxVal ELSE f.minVal) = f.seen[i]

\* C4 witness: a maximizing call and a minimizing call are active, each with
\* two moves tied at its best child value.
C4_Witness ==
  /\ \E k \in 1..Len(stack) : stack[k].isMaximizingPlayer /\ TiedBest(stack[k])
  /\ \E k \in 1..Len(stack) : ~stack[k].isMaximizingPlayer /\ TiedBest(stack[k])

\* The steps that apply a real move to the engine: updateBoardWithPlayerMove,
\* updateChessEngineWithPromotion with a move, and the end of calcAiMove.
RecordsMove ==
  /\ pc = "idle" /\ ops' = ops + 1
  /\ lastCall'.op = "updateBoardWithPlayerMove"
  /\ outcome' = "ok"
CorrectsPromotionWithMove ==
  /\ pc = "idle" /\ ops' = ops + 1
  /\ lastCall'.op = "updateChessEngineWithPromotion"
  /\ lastCall'.move # Null
PlaysOwnMove ==
  /\ pc = "calc" /\ pc' = "idle"
  /\ outcome' = "ok"

\* C5 (as claimed): every real move applied to the engine updates the
\* running score once, to the evaluator's result for that move and the
\* previous running score; after calcAiMove the running score is
\* evaluateBoard(chosen move, running score before the call).
C5_ScoreUpdatedOncePerMove ==
  [][/\ RecordsMove => prevSum' = evaluateBoard(lastCall'.move, prevSum)
     /\ CorrectsPromotionWithMove =>
          prevSum' = evaluateBoard(lastCall'.move, prevSum)
     /\ PlaysOwnMove => prevSum' = evaluateBoard(result', prevSum)]_vars

\* The from-scratch evaluation of a board: material plus positional weight of
\* every piece, the engine's pieces counted positively with the ai-tables,
\* the opponent's negatively with the opponent-tables.
PieceScore(board, sq) ==
  LET x == board[sq]
      pos == getMatrixPosition(sq)
  IN  IF x = Empty THEN 0
      ELSE IF x.color = color
        THEN PIECE_WEIGHTS[x.type]
             + aiSquareTables[x.type][pos.row + 1][pos.column + 1]
        ELSE -(PIECE_WEIGHTS[x.type]
               + opponentSquareTables[x.type][pos.row + 1][pos.column + 1])

RECURSIVE FullScoreUpTo(_, _)
FullScoreUpTo(board, n) ==
  IF n = 0 THEN 0
  ELSE PieceScore(board, SquareAt(n)) + FullScoreUpTo(board, n - 1)

FullRecompute(board) == FullScoreUpTo(board, NumSquares)

\* C6 (as claimed): for every real move, the evaluator's incremental update
\* changes the score by exactly what the from-scratch evaluation changes by,
\* so that the folded score equals the full recomputation of the final board.
C6_IncrementalEqualsFull ==
  [][/\ RecordsMove =>
          evaluateBoard(lastCall'.move, prevSum) - prevSum
            = FullRecompute(chessEngine'.board) - FullRecompute(chessEngine.board)
     /\ PlaysOwnMove =>
          evaluateBoard(result', prevSum) - prevSum
            = FullRecompute(chessEngine'.board) - FullRecompute(chessEngine.board)
    ]_vars

\* C7: calcAiMove calls minimax(3, prevSum, true, -Infinity, +Infinity) and,
\* at a position with a legal move, ends with the running score equal to the
\* value the search returned, the engine in the pre-call position with exactly
\* the returned move applied, that move legal in the pre-call position, and
\* that move given to the caller.
C7_CalcAiMove ==
  [][/\ (pc = "idle" /\ pc' = "calc") =>
          /\ stack' = << NewCall(3, prevSum, TRUE, -Infinity, Infinity,
                                 chessEngine) >>
          /\ prevSum' = prevSum /\ chessEngine' = chessEngine
     /\ (pc = "calc" /\ pc' = "idle" /\ color # Undefined
           /\ Len(LegalMoves(rootCall.entry)) > 0) =>
          /\ outcome' = "ok"
          /\ prevSum' = ret.value
          /\ ret.move \in SeqToSet(LegalMoves(rootCall.entry))
          /\ chessEngine'.board = MakeMove(rootCall.entry, ret.move).board
          /\ chessEngine'.turn = Other(rootCall.entry.turn)
          /\ chessEngine'.history = Append(rootCall.entry.history, ret.move)
          /\ result' = ret.move]_vars

\* C7 witness: calcAiMove has ended with its move played, last in the
\* engine's history, and a running score other than the initial one.
C7_Witness ==
  /\ pc = "idle" /\ lastCall.op = "calcAiMove" /\ outcome = "ok"
  /\ result # Null
  /\ prevSum # 0
  /\ chessEngine.history # << >>
  /\ chessEngine.history[Len(chessEngine.history)] = result

\* A table set with the row order of every grid reversed: row i is row 7 - i.
RowsReversed(t) ==
  [p \in DOMAIN t |-> [i \in 1..NumRanks |-> t[p][NumRanks + 1 - i]]]

\* C8 (as claimed): playing white, both perspective tables are the base
\* tables; playing black, both are the base tables with the rows reversed.
C8_BothTablesAlike ==
  /\ color = "w" => /\ aiSquareTables = BaseSquareTables
                    /\ opponentSquareTables = BaseSquareTables
  /\ color = "b" => /\ aiSquareTables = RowsReversed(BaseSquareTables)
                    /\ opponentSquareTables = RowsReversed(BaseSquareTables)

\* C8 (amended): playing white, the ai-tables are the base tables and the
\* opponent-tables are the base tables with the rows reversed; playing black,
\* the ai-tables are the reversed and the opponent-tables the base tables.
C8_PerspectiveTables ==
  /\ color = "w" => /\ aiSquareTables = BaseSquareTables
                    /\ opponentSquareTables = RowsReversed(BaseSquareTables)
  /\ color = "b" => /\ aiSquareTables = RowsReversed(BaseSquareTables)
                    /\ opponentSquareTables = BaseSquareTables

\* C8 witness: a session initialized as black, after a further operation.
C8_Witness ==
  /\ color = "b" /\ lastCall.op # "init" /\ ops >= 2
  /\ aiSquareTables = RowsReversed(BaseSquareTables)
  /\ aiSquareTables # BaseSquareTables

\* The evaluator was just applied: the innermost call has applied and
\* evaluated its current move.
Evaluated == Searching /\ Top.pc = "call"
Delta == Top.newSum - Top.sum
Mine(m) == m.color = color
Cell(t, piece, sq) ==
  t[piece][getMatrixPosition(sq).row + 1][getMatrixPosition(sq).column + 1]

\* The capture rule's term.
CaptureTerm(m) ==
  IF Mine(m)
    THEN PIECE_WEIGHTS[m.captured] + Cell(aiSquareTables, m.captured, m.to)
    ELSE -(PIECE_WEIGHTS[m.captured]
           + Cell(opponentSquareTables, m.captured, m.to))

\* The positional from/to terms of the moving piece, read from either
\* perspective table: gained by the engine's move, lost by the opponent's.
PositionalTerms(m) ==
  { (IF Mine(m) THEN 1 ELSE -1) * (Cell(t, m.piece, m.to) - Cell(t, m.piece, m.from)) :
      t \in {aiSquareTables, opponentSquareTables} }

IsCapture(m) == m.captured # NoPiece
IsPromotion(m) == m.promotion # NoPiece

\* C9 (as claimed): the delta of a capture without promotion is the capture
\* term alone; the delta of a move without capture and promotion is its
\* positional from/to term alone.
C9_OneRulePerMove ==
  Evaluated =>
    LET m == Top.currentMove
    IN  /\ (IsCapture(m) /\ ~IsPromotion(m)) => Delta = CaptureTerm(m)
        /\ (~IsCapture(m) /\ ~IsPromotion(m)) => Delta \in PositionalTerms(m)

\* C9 (amended): the capture rule applies in addition to the regular-move
\* rule: the delta of a capture without promotion is the capture term plus
\* the positional from/to term of the moving piece; the delta of a move
\* without capture and promotion is its positional from/to term alone.
C9_CaptureAddsToRegular ==
  Evaluated =>
    LET m == Top.currentMove
    IN  /\ (IsCapture(m) /\ ~IsPromotion(m)) =>
             (Delta - CaptureTerm(m)) \in PositionalTerms(m)
        /\ (~IsCapture(m) /\ ~IsPromotion(m)) => Delta \in PositionalTerms(m)

\* C9 witness: the evaluator was applied to a capture without promotion whose
\* moving piece changes its positional weight.
C9_Witness ==
  /\ Evaluated
  /\ IsCapture(Top.currentMove) /\ ~IsPromotion(Top.currentMove)
  /\ Delta # CaptureTerm(Top.currentMove)
  /\ 0 \notin PositionalTerms(Top.currentMove)

\* C10 (as claimed): for a quiet move of the opponent the evaluator returns
\* prevScore + oppTable(piece, from) - oppTable(piece, to).
C10_OpponentQuietMove ==
  Evaluated =>
    LET m == Top.currentMove
    IN  (~IsCapture(m) /\ ~IsPromotion(m) /\ ~Mine(m)) =>
          Top.newSum = Top.sum + Cell(opponentSquareTables, m.piece, m.from)
                               - Cell(opponentSquareTables, m.piece, m.to)

\* C11 (as claimed): after init the running score is 0, whatever operations
\* of the session came before the call.
C11_InitResetsScore ==
  (pc = "idle" /\ lastCall.op = "init") => prevSum = 0

\* The step ends a call of updateBoardWithPlayerMove.
EndsRecord == lastCall'.op = "updateBoardWithPlayerMove" /\ ops' = ops + 1
\* The step ends a call of calcAiMove, by a return or by an exception.
EndsChoose == pc = "calc" /\ pc' = "idle"

\* C12 (as claimed): updateBoardWithPlayerMove or calcAiMove called before
\* init ends in an error and fails fast: the position of the rules engine
\* and the running score are what they were when the operation was called.
C12_FailsFastBeforeInit ==
  [][(color = Undefined /\ (EndsRecord \/ EndsChoose)) =>
       /\ outcome' = "TypeError"
       /\ chessEngine' = (IF EndsChoose THEN rootCall.entry ELSE chessEngine)
       /\ prevSum' = prevSum]_vars

\* Row i (0-based) of every grid of t is row 7 - i of the base grid, with
\* its columns in the base grid's order.
FlippedBase(t) ==
  \A p \in PieceTypes :
    /\ Len(t[p]) = NumRanks
    /\ \A i \in 0..(NumRanks - 1) :
         t[p][i + 1] = BaseSquareTables[p][(NumRanks - 1 - i) + 1]

\* The tables the builder returned in the last init: the engine's for a
\* black session, the opponent's for a white one.
BuiltTables == IF isBlack(color) THEN aiSquareTables ELSE opponentSquareTables

\* C13: reverseSquareTablesForBlack returns, for every piece type, the base
\* grid with its rows in reverse order and its columns as they are, and the
\* shared PIECE_SQUARE_TABLES are the base tables after any number of init
\* calls of any colors.
C13_BuilderFlipsBaseUnchanged ==
  /\ PIECE_SQUARE_TABLES = BaseSquareTables
  /\ FlippedBase(reverseSquareTablesForBlack(PIECE_SQUARE_TABLES))
  /\ (color # Undefined => FlippedBase(BuiltTables))

\* init has just run again on a session that had scored moves, as black:
\* the builder has run at least twice and its grids differ from the base.
C13_Witness ==
  /\ pc = "idle" /\ lastCall.op = "init" /\ prevSum # 0 /\ color = "b"
  /\ FlippedBase(aiSquareTables)
  /\ \A p \in PieceTypes : aiSquareTables[p] # BaseSquareTables[p]
  /\ PIECE_SQUARE_TABLES = BaseSquareTables

\* The vertical mirror of a square and of a move: rows i and 7 - i (ranks r
\* and 9 - r) exchanged, the mover's color exchanged, the piece types, the
\* capture and the flags kept.
MirrorSquare(sq) == << sq[1], NumRanks + 1 - sq[2] >>
MirrorMove(m) ==
  [m EXCEPT !.color = Other(@), !.from = MirrorSquare(@),
            !.to = MirrorSquare(@)]

\* C14 (as claimed), for a single move in one session: the evaluator's
\* delta for a move of the engine and its delta for the mirrored move of the
\* opponent sum to zero.
C14_ColorSymmetry ==
  (pc = "idle" /\ color # Undefined) =>
    \A m \in PlayerMoves :
      Mine(m) =>
        (evaluateBoard(m, 0) - 0) + (evaluateBoard(MirrorMove(m), 0) - 0) = 0

\* A search started by calcAiMove is running (its root call may have
\* returned already).
ChooseSearch == pc = "calc"

\* The moves applied since the search started and not undone yet.
Pending ==
  SubSeq(chessEngine.history, Len(rootCall.entry.history) + 1,
         Len(chessEngine.history))

\* The pending moves are one path from the root position: the history of
\* the root position goes on with the move the root call has applied, then
\* the move its active child has applied, and so on down the stack.
SinglePath ==
  /\ Len(chessEngine.history) >= Len(rootCall.entry.history)
  /\ SubSeq(chessEngine.history, 1, Len(rootCall.entry.history))
       = rootCall.entry.history
  /\ Len(Pending) <= Len(stack)
  /\ \A k \in 1..Len(Pending) :
       /\ stack[k].pc \in {"call", "wait", "undo"}
       /\ Pending[k] = stack[k].currentMove
       /\ Pending[k] \in SeqToSet(LegalMoves(stack[k].entry))
       /\ Len(stack[k].entry.history) = Len(rootCall.entry.history) + k - 1

\* The remaining depth of the innermost active call; D once the root call
\* has returned.
RemainingDepth == IF stack = << >> THEN SearchDepth ELSE stack[Len(stack)].depth

\* The innermost active call has applied a move that it has not undone, and
\* the call it makes for that move is not running.
HoldsOwnMove == stack # << >> /\ stack[Len(stack)].pc \in {"call", "undo"}

\* C15 (as claimed): at every point of a search of calcAiMove with depth D
\* the pending moves form one path from the root position and their number
\* is D minus the remaining depth of the innermost active call.
C15_PendingEqualsDepthUsed ==
  ChooseSearch =>
    /\ SinglePath
    /\ Len(Pending) = SearchDepth - RemainingDepth

\* C15 (amended): the pending moves form one path from the root position;
\* their number is D minus the remaining depth of the innermost active call,
\* and one more than that while this call holds a move of its own (from
\* applying it to the recursive call, and from that call's return to the
\* undo); it is at most D, and 0 when the root call has returned.
C15_PendingMatchesRecursion ==
  ChooseSearch =>
    /\ SinglePath
    /\ Len(Pending) = (SearchDepth - RemainingDepth)
                        + (IF HoldsOwnMove THEN 1 ELSE 0)
    /\ Len(Pending) <= SearchDepth
    /\ (stack = << >> => Len(Pending) = 0)

\* C15 witness: the call with remaining depth 1 has its move applied, as the
\* third of the path, after the depth-0 call for it has returned.
C15_Witness ==
  /\ ChooseSearch /\ Len(stack) = SearchDepth
  /\ stack[Len(stack)].pc = "undo" /\ stack[Len(stack)].depth = 1
  /\ Len(Pending) = SearchDepth
  /\ SinglePath

\* A score that is not one of the sentinels -Infinity and +Infinity.
Finite(v) == -Infinity < v /\ v < Infinity

\* The innermost call returns in this step.
CallReturns == Searching /\ Len(stack') = Len(stack) - 1 /\ pc' = pc

\* C16: a call of minimax with depth >= 1, a finite score and at least one
\* legal move in its position, whatever alpha and beta it was given, returns
\* a move that is not null and is legal in that position, and a finite value.
C16_ReturnsLegalMoveFiniteValue ==
  [][(/\ CallReturns
      /\ Top.depth >= 1 /\ Finite(Top.sum)
      /\ Len(LegalMoves(Top.entry)) >= 1)
     => /\ ret'.move # Null
        /\ ret'.move \in SeqToSet(LegalMoves(Top.entry))
        /\ Finite(ret'.value)]_vars

\* C16 witness: a call with depth >= 1 that was given a narrowed window is
\* about to return after its first move: that move's value closed the
\* window, the loop was left with moves untried, and the move is the best.
C16_Witness ==
  /\ Searching /\ Top.pc = "exit" /\ Top.depth >= 1
  /\ Len(Top.seen) = 1 /\ CutShort(Top)
  /\ Top.bestMove = Top.moves[1]
  /\ Finite(MinimaxResult(Top).value)

\* The step is a call of init.
CallsInit == lastCall'.op = "init" /\ ops' = ops + 1

\* C17: while a search runs, from its start until its root call returns,
\* every step (each evaluation of a move included) leaves the color, the
\* running score, both perspective tables and the shared tables unchanged;
\* and once the session is initialized no step other than a call of init
\* changes the perspective tables.
C17_SearchAndEvaluatorFrame ==
  [][/\ Searching =>
          /\ color' = color
          /\ prevSum' = prevSum
          /\ aiSquareTables' = aiSquareTables
          /\ opponentSquareTables' = opponentSquareTables
          /\ PIECE_SQUARE_TABLES' = PIECE_SQUARE_TABLES
     /\ (color # Undefined /\ ~CallsInit) =>
          /\ aiSquareTables' = aiSquareTables
          /\ opponentSquareTables' = opponentSquareTables]_vars

\* C17 witness: a search of calcAiMove on an initialized session has
\* returned a move and a value that differs from the running score, after
\* pruning; the running score is the one the search started with and the
\* tables are those init built.
C17_Witness ==
  /\ Returned /\ pc = "calc" /\ color # Undefined
  /\ pruned /\ ret.move # Null
  /\ prevSum # 0 /\ prevSum = rootCall.sum /\ ret.value # prevSum
  /\ FlippedBase(BuiltTables)
  /\ chessEngine = rootCall.entry
====
